---------------------------- MODULE Spec2Model ----------------------------
(***************************************************************************)
(* py_chunk_in_memory: the chunking strategies of chunkers.py as a state   *)
(* machine.  A chunker is constructed (its arguments validated), chunk()   *)
(* is called on a text, and the strategy's loops run one iteration per     *)
(* step until the chunk list is returned.                                  *)
(*                                                                         *)
(* A text is a sequence of one-character strings; Python's half-open,      *)
(* 0-based slice text[a:b] is Slice(text, a, b).                           *)
(***************************************************************************)
EXTENDS Integers, Sequences, FiniteSets, TLC

(* ------------------------------ bounds --------------------------------- *)
MaxFixedLen == 4
MaxRecLen == 4
MaxTermLen == 3
MaxSentLen == 5
MaxChunkSize == 3
MaxRecChunkSize == 2
MaxOverlapSentences == 1
MaxRecursionDepth == 10
MaxCannedChunks == 3
MaxCannedLen == 3
MaxDummyChunkSize == 5
MaxMinimumSize == 4
MaxTwoCallLen == 3

\* Optional[UUID] = None: the value no identifier equals
None == 0

(* ------------------------------ helpers -------------------------------- *)
Min(a, b) == IF a < b THEN a ELSE b

Max(a, b) == IF a < b THEN b ELSE a

\* Python's s[a:b] for 0 <= a: the characters at 0-based positions a..b-1.
Slice(s, a, b) == SubSeq(s, a + 1, Min(b, Len(s)))

\* All sequences over S of length lo..hi.
SeqsOf(S, lo, hi) == UNION {[1..n -> S] : n \in lo..hi}

RECURSIVE Concat(_)
\* "".join(parts): the concatenation of a sequence of texts.
Concat(ss) == IF ss = <<>> THEN <<>> ELSE Head(ss) \o Concat(Tail(ss))

RECURSIVE JoinWithSpace(_)
\* " ".join(parts)
JoinWithSpace(ss) ==
    IF ss = <<>> THEN <<>>
    ELSE IF Len(ss) = 1 THEN Head(ss)
    ELSE Head(ss) \o <<" ">> \o JoinWithSpace(Tail(ss))

\* Number of positions of s holding character c.
CountChar(s, c) == Cardinality({i \in 1..Len(s) : s[i] = c})

(* --------------------------- size functions ---------------------------- *)
(* The length_function is supplied by the caller.  The model draws it from *)
(* a family of deterministic functions: the default len, and the custom    *)
(* functions the test-suite passes in.                                     *)

\* tests: "return 100 if 'X' in x else len(x)"
OversizedValue == 100
\* tests: "if text == '': return 1000"
EmptyValue == 1000

\* the number of maximal runs of non-space characters: len(text.split())
WordCount(s) ==
    Cardinality({i \in 1..Len(s) : s[i] # " " /\ (i = 1 \/ s[i - 1] = " ")})

LengthFunction(lf, s) ==
    CASE lf = "len" -> Len(s)
      [] lf = "x_oversized" ->
            IF \E i \in 1..Len(s) : s[i] = "X" THEN OversizedValue ELSE Len(s)
      [] lf = "times3" -> Len(s) * 3
      [] lf = "pair" ->
            IF Len(s) = 1 THEN 2 ELSE IF Len(s) = 2 THEN 5 ELSE Len(s)
      [] lf = "split_spaces" -> CountChar(s, " ") + 1
      [] lf = "words" -> WordCount(s)
      [] lf = "empty_oversized" -> IF s = <<>> THEN EmptyValue ELSE Len(s)

(* ------------------------------- inputs -------------------------------- *)
FixedAlphabet == {"a", "X", " "}
RecAlphabet == {"a", "-", " "}
SentAlphabet == {"a", "A", ".", " "}

FixedLengthFns ==
    {"len", "x_oversized", "times3", "pair", "split_spaces", "words"}
RecLengthFns == {"len", "empty_oversized", "times3"}
SentLengthFns == {"len", "words"}

\* Separator strings (as character sequences); <<>> is the empty string.
SepSpace == <<" ">>
SepDashes == <<"-", "-">>
SepEmpty == <<>>

\* separators=None (modelled as the empty list, which `or` treats alike)
\* and custom lists with and without the terminal empty string.
SeparatorLists ==
    { <<>>, <<SepSpace>>, <<SepDashes>>, <<SepEmpty>>,
      <<SepDashes, SepSpace>>, <<SepSpace, SepEmpty>>, <<SepEmpty, SepSpace>> }

\* RecursiveCharacterChunker.__init__: separators or ["\n\n", "\n", ". ", "? ", "! ", " ", ""]
DefaultSeparators ==
    << <<"\n", "\n">>, <<"\n">>, <<".", " ">>, <<"?", " ">>, <<"!", " ">>,
       <<" ">>, <<>> >>

VARIABLES
    strategy,                \* which chunker class is used
    chunk_size,              \* constructor argument / self.chunk_size
    chunk_overlap,           \* constructor argument / self.chunk_overlap
    length_function,         \* self._length_function (a name of LengthFunction)
    separators,              \* self.separators (recursive)
    keep_separator,          \* self.keep_separator (recursive)
    overlap_sentences,       \* self.overlap_sentences (sentence)
    text,                    \* the argument of chunk()
    pc,                      \* position of the caller / of chunk()
    chunks,                  \* the list chunk() builds and returns
    start_char,              \* FixedSizeChunker.chunk local
    sequence_number,         \* FixedSizeChunker.chunk local
    stack,                   \* call stack of _split_text_with_indices
    splits,                  \* result of _split_text_with_indices
    idx,                     \* position of the merge loop in splits/sentences
    final_chunks,            \* merge result: tuples (text, start, end)
    current_chunk_parts,     \* _merge_splits_with_indices local
    current_length,          \* _merge_splits_with_indices local
    sentences,               \* result of _split_text_with_regex
    current_chunk_sentences, \* _merge_sentences local
    measured,                \* whether this chunk() call has called the
                             \* length function
    minimum_chunk_size,      \* runt postprocessor: the minimum size
    runt_handling,           \* runt postprocessor: "keep", "discard", "merge"
    chunks_to_return,        \* DummyChunker.chunks_to_return
    re_error,                \* whether re.finditer raises re.error in this run
    calls                    \* the locals of concurrent chunk() calls on the
                             \* same chunker, by caller

\* what a chunk() call reads and never writes: the chunker's fields and the
\* behaviour of the regex engine
config == <<strategy, chunk_size, chunk_overlap, length_function, separators,
            keep_separator, overlap_sentences, minimum_chunk_size,
            runt_handling, chunks_to_return, re_error>>

fixed_locals == <<start_char, sequence_number>>

rec_locals == <<stack, splits, current_chunk_parts, current_length>>

sent_locals == <<sentences, current_chunk_sentences>>

vars == <<config, text, pc, chunks, fixed_locals, rec_locals, sent_locals,
          idx, final_chunks, measured, calls>>

\* self._length_function(s)
LF(s) == LengthFunction(length_function, s)

(* ------------------------------- Chunk --------------------------------- *)
\* uuid4(): an identifier no chunk built so far carries.
FreshId(built) == Len(built) + 1

\* mutant of NewChunk: the position is counted from 1
NewChunkOneBased(built, chunk_text, start, end, seq, strat) ==
    [ text_for_generation |-> chunk_text,
      chunk_id |-> FreshId(built),
      previous_chunk_id |-> None,
      next_chunk_id |-> None,
      start_char_index |-> start,
      end_char_index |-> end,
      sequence_number |-> seq + 1,
      token_count |-> LF(chunk_text),
      chunking_strategy_used |-> strat ]

\* models.Chunk as the strategies construct it: the link fields keep their
\* dataclass defaults.
NewChunk(built, chunk_text, start, end, seq, strat) ==
    [ text_for_generation |-> chunk_text,
      chunk_id |-> FreshId(built),
      previous_chunk_id |-> None,
      next_chunk_id |-> None,
      start_char_index |-> start,
      end_char_index |-> end,
      sequence_number |-> seq,
      token_count |-> LF(chunk_text),
      chunking_strategy_used |-> strat ]

(* ---------------------------- construction ----------------------------- *)
\* mutant of ConfigError: the overlap is not compared with the size
ConfigErrorSkipsOverlap ==
    \/ chunk_size <= 0
    \/ chunk_overlap < 0
    \/ strategy = "sentence" /\ overlap_sentences < 0

\* The three __init__ methods share these checks; SentenceChunker waives the
\* overlap < size check when overlap_sentences > 0.
ConfigError ==
    \/ chunk_size <= 0
    \/ chunk_overlap < 0
    \/ IF strategy = "sentence"
       THEN (chunk_overlap >= chunk_size /\ overlap_sentences = 0)
            \/ overlap_sentences < 0
       ELSE chunk_overlap >= chunk_size

InitLocals ==
    /\ pc = "new"
    /\ text = <<>>
    /\ chunks = <<>>
    /\ start_char = 0
    /\ sequence_number = 0
    /\ stack = <<>>
    /\ splits = <<>>
    /\ idx = 0
    /\ final_chunks = <<>>
    /\ current_chunk_parts = <<>>
    /\ current_length = 0
    /\ sentences = <<>>
    /\ current_chunk_sentences = <<>>
    /\ measured = FALSE
    /\ calls = <<>>

\* The strategies of chunkers.py take no runt arguments and hold no canned
\* chunks.
NoRuntHandling ==
    /\ minimum_chunk_size = 0
    /\ runt_handling = "keep"
    /\ chunks_to_return = <<>>

InitSizes ==
    /\ chunk_size \in 0..MaxChunkSize
    /\ chunk_overlap \in (-1)..MaxChunkSize

InitFixed ==
    /\ strategy = "fixed"
    /\ InitSizes
    /\ length_function \in FixedLengthFns
    /\ separators = <<>>
    /\ keep_separator = TRUE
    /\ overlap_sentences = 0
    /\ NoRuntHandling
    /\ re_error = FALSE
    /\ InitLocals

\* __init__: raise ValueError, or store the arguments.
Construct ==
    /\ pc = "new"
    /\ pc' = IF ConfigError THEN "error" ELSE "ready"
    /\ separators' = IF strategy = "recursive" /\ separators = <<>>
                     THEN DefaultSeparators ELSE separators
    /\ UNCHANGED <<strategy, chunk_size, chunk_overlap, length_function,
                   keep_separator, overlap_sentences, minimum_chunk_size,
                   runt_handling, chunks_to_return, re_error, text, chunks,
                   fixed_locals, stack, splits, current_chunk_parts,
                   current_length, sent_locals, idx, final_chunks, measured,
                   calls>>

(* -------------------------- FixedSizeChunker --------------------------- *)
\* step 1: the first index >= start whose character alone is oversized, or -1
NextOversizedCharIndex(start) ==
    LET over == {i \in start..(Len(text) - 1) :
                    LF(Slice(text, i, i + 1)) > chunk_size}
    IN  IF over = {} THEN -1 ELSE CHOOSE i \in over : \A j \in over : i <= j

\* step 2
Limit(start) ==
    IF NextOversizedCharIndex(start) # -1
    THEN NextOversizedCharIndex(start) ELSE Len(text)

RECURSIVE ScanForwardLate(_, _, _)
\* mutant of ScanForward: measures the window it has, not the one it would get
ScanForwardLate(start, end_char, limit) ==
    IF end_char < limit /\ ~(LF(Slice(text, start, end_char)) > chunk_size)
    THEN ScanForwardLate(start, end_char + 1, limit)
    ELSE end_char

RECURSIVE ScanForward(_, _, _)
\* step 3, the inner while: extend end_char while the next prefix fits
ScanForward(start, end_char, limit) ==
    IF end_char < limit /\ ~(LF(Slice(text, start, end_char + 1)) > chunk_size)
    THEN ScanForward(start, end_char + 1, limit)
    ELSE end_char

\* step 3
EndChar(start) ==
    IF Limit(start) = start THEN start + 1
    ELSE ScanForward(start, start, Limit(start))

RECURSIVE ScanBackwardStepsFirst(_, _, _)
\* mutant of ScanBackward: the first step back is taken without measuring
ScanBackwardStepsFirst(start, start_of_overlap, end_char) ==
    IF start_of_overlap > start
       /\ \/ start_of_overlap = end_char
          \/ ~(LF(Slice(text, start_of_overlap - 1, end_char)) > chunk_overlap)
    THEN ScanBackwardStepsFirst(start, start_of_overlap - 1, end_char)
    ELSE start_of_overlap

RECURSIVE ScanBackwardLate(_, _, _)
\* mutant of ScanBackward: measures the suffix it has, not the one it would
\* get
ScanBackwardLate(start, start_of_overlap, end_char) ==
    IF start_of_overlap > start
       /\ ~(LF(Slice(text, start_of_overlap, end_char)) > chunk_overlap)
    THEN ScanBackwardLate(start, start_of_overlap - 1, end_char)
    ELSE start_of_overlap

\* mutant of ScanBackward: no overlap is taken
ScanBackwardNone(start, start_of_overlap, end_char) == end_char

RECURSIVE ScanBackward(_, _, _)
\* step 5, the overlap while: move back while the suffix fits the overlap
ScanBackward(start, start_of_overlap, end_char) ==
    IF start_of_overlap > start
       /\ ~(LF(Slice(text, start_of_overlap - 1, end_char)) > chunk_overlap)
    THEN ScanBackward(start, start_of_overlap - 1, end_char)
    ELSE start_of_overlap

\* mutant of NextStart: the overlap is scanned even before an oversized
\* character
NextStartIgnoresAtom(start, end_char) ==
    LET start_of_overlap == ScanBackward(start, end_char, end_char)
    IN  IF start_of_overlap <= start THEN end_char ELSE start_of_overlap

\* mutant of NextStart: the scan's result is used even when it reached start
NextStartUnguarded(start, end_char) ==
    IF NextOversizedCharIndex(start) = end_char THEN end_char
    ELSE ScanBackward(start, end_char, end_char)

\* mutant of NextStart: the next window starts one character too late
NextStartSkipsOne(start, end_char) == end_char + 1

\* step 5: where the next window starts
NextStart(start, end_char) ==
    IF NextOversizedCharIndex(start) = end_char THEN end_char
    ELSE LET start_of_overlap == ScanBackward(start, end_char, end_char)
         IN  IF start_of_overlap <= start THEN end_char ELSE start_of_overlap

\* chunk(text) is called with a text of the given set; the empty text
\* returns [] at once.
FixedChunkCallOn(texts) ==
    /\ pc = "ready" /\ strategy = "fixed"
    /\ text' \in texts
    /\ IF text' = <<>>
       THEN pc' = "done"
       ELSE pc' = "fixed_loop"
    /\ chunks' = <<>>
    /\ start_char' = 0
    /\ sequence_number' = 0
    /\ measured' = FALSE
    /\ UNCHANGED <<config, calls, rec_locals, sent_locals, idx, final_chunks>>

\* mutant of FixedChunkCall: emptiness is tested with the length function
FixedChunkCallMeasures ==
    /\ pc = "ready" /\ strategy = "fixed"
    /\ text' \in SeqsOf(FixedAlphabet, 0, MaxFixedLen)
    /\ IF LengthFunction(length_function, text') = 0
       THEN pc' = "done"
       ELSE pc' = "fixed_loop"
    /\ chunks' = <<>>
    /\ start_char' = 0
    /\ sequence_number' = 0
    /\ measured' = TRUE
    /\ UNCHANGED <<config, calls, rec_locals, sent_locals, idx, final_chunks>>

FixedChunkCall == FixedChunkCallOn(SeqsOf(FixedAlphabet, 0, MaxFixedLen))

\* One iteration of "while start_char < text_len_chars" on the locals
\* (chunks, start_char, sequence_number) = (built, start, seq): the locals
\* after it, and whether the loop goes on.
FixedIteration(built, start, seq) ==
    LET end_char == EndChar(start)
        chunk_text == Slice(text, start, end_char)
        exit == [ pc |-> "done", chunks |-> built, start_char |-> start,
                  sequence_number |-> seq ]
    IN  IF ~(start < Len(text)) THEN exit
        ELSE IF chunk_text = <<>> THEN exit
        ELSE [ pc |-> IF end_char = Len(text) THEN "done" ELSE "fixed_loop",
               chunks |-> Append(built,
                                 NewChunk(built, chunk_text, start, end_char,
                                          seq, "fixed_size")),
               start_char |-> IF end_char = Len(text) THEN start
                              ELSE NextStart(start, end_char),
               sequence_number |-> seq + 1 ]

\* One iteration of "while start_char < text_len_chars".
FixedLoop ==
    /\ pc = "fixed_loop"
    /\ LET r == FixedIteration(chunks, start_char, sequence_number)
       IN  /\ pc' = r.pc
           /\ chunks' = r.chunks
           /\ start_char' = r.start_char
           /\ sequence_number' = r.sequence_number
    /\ measured' = IF start_char < Len(text) THEN TRUE ELSE measured
    /\ UNCHANGED <<config, calls, text, rec_locals, sent_locals, idx, final_chunks>>

NextFixed == Construct \/ FixedChunkCall \/ FixedLoop

SpecFixed == InitFixed /\ [][NextFixed]_vars

\* the same call on the shorter texts of the termination check
ShortFixedChunkCall == FixedChunkCallOn(SeqsOf(FixedAlphabet, 0, MaxTermLen))

NextFixedShort == Construct \/ ShortFixedChunkCall \/ FixedLoop

\* chunk() runs to completion once called: the scheduler is the Python
\* interpreter executing the call.
FairSpecFixed ==
    InitFixed /\ [][NextFixedShort]_vars /\ WF_vars(NextFixedShort)

(* ---------------------- RecursiveCharacterChunker ---------------------- *)
InitRecursive ==
    /\ strategy = "recursive"
    /\ chunk_size \in 0..MaxRecChunkSize
    /\ chunk_overlap \in (-1)..MaxRecChunkSize
    /\ length_function \in RecLengthFns
    /\ separators \in SeparatorLists
    /\ keep_separator \in BOOLEAN
    /\ overlap_sentences = 0
    /\ NoRuntHandling
    /\ re_error = FALSE
    /\ InitLocals

\* _Split
Split(t, start, end) == [text |-> t, start_index |-> start, end_index |-> end]

RECURSIVE FallbackSegmentsLocal(_, _, _)
\* mutant of FallbackSegments: offsets relative to the fragment, not the text
FallbackSegmentsLocal(t, initial_offset, i) ==
    IF i >= Len(t) THEN <<>>
    ELSE LET segment == Slice(t, i, i + chunk_size)
         IN  <<Split(segment, i, i + Len(segment))>>
             \o FallbackSegmentsLocal(t, initial_offset, i + chunk_size)

RECURSIVE FallbackSegmentsSkip(_, _, _)
\* mutant of FallbackSegments: the slices step one character too far
FallbackSegmentsSkip(t, initial_offset, i) ==
    IF i >= Len(t) THEN <<>>
    ELSE LET segment == Slice(t, i, i + chunk_size)
         IN  <<Split(segment, initial_offset + i,
                     initial_offset + i + Len(segment))>>
             \o FallbackSegmentsSkip(t, initial_offset, i + chunk_size + 1)

RECURSIVE FallbackSegments(_, _, _)
\* "if not separator": slices of chunk_size characters from position i on
FallbackSegments(t, initial_offset, i) ==
    IF i >= Len(t) THEN <<>>
    ELSE LET segment == Slice(t, i, i + chunk_size)
         IN  <<Split(segment, initial_offset + i,
                     initial_offset + i + Len(segment))>>
             \o FallbackSegments(t, initial_offset, i + chunk_size)

RECURSIVE FindMatches(_, _, _)
\* re.finditer(re.escape(separator), text): the start positions of the
\* leftmost non-overlapping occurrences of the literal separator, from pos on
FindMatches(t, separator, pos) ==
    IF pos + Len(separator) > Len(t) THEN <<>>
    ELSE IF Slice(t, pos, pos + Len(separator)) = separator
         THEN <<pos>> \o FindMatches(t, separator, pos + Len(separator))
         ELSE FindMatches(t, separator, pos + 1)

RECURSIVE SeparatorSplits(_, _, _, _, _)
\* the finditer loop and the remainder after the last match
SeparatorSplits(t, separator, initial_offset, matches, last_end) ==
    IF matches = <<>>
    THEN IF last_end < Len(t)
         THEN <<Split(Slice(t, last_end, Len(t)), initial_offset + last_end,
                      initial_offset + Len(t))>>
         ELSE <<>>
    ELSE LET start == Head(matches)
             end == start + Len(separator)
             piece == IF keep_separator
                      THEN Split(Slice(t, last_end, end),
                                 initial_offset + last_end, initial_offset + end)
                      ELSE Split(Slice(t, last_end, start),
                                 initial_offset + last_end, initial_offset + start)
         IN  <<piece>> \o SeparatorSplits(t, separator, initial_offset,
                                          Tail(matches), end)

\* mutant of CharSplits: the last character is left out
CharSplitsDropsLast(t, initial_offset) ==
    [k \in 1..(Len(t) - 1) |->
        Split(<<t[k]>>, initial_offset + k - 1, initial_offset + k)]

\* "except re.error": one split per character
CharSplits(t, initial_offset) ==
    [k \in 1..Len(t) |-> Split(<<t[k]>>, initial_offset + k - 1, initial_offset + k)]

\* Whether re.finditer raises re.error.  The pattern is re.escape(separator),
\* a valid pattern for every string, so a real run has re_error = FALSE; the
\* except branch is entered only when the engine is made to fail.
PatternFails(separator) == re_error

\* the splits of one level, before the oversized ones are re-split
LevelSplits(t, separator, initial_offset) ==
    IF PatternFails(separator)
    THEN CharSplits(t, initial_offset)
    ELSE SeparatorSplits(t, separator, initial_offset,
                         FindMatches(t, separator, 0), 0)

\* one activation of _split_text_with_indices(text, separators, initial_offset)
NewFrame(t, seps, initial_offset) ==
    [ text |-> t,
      separators |-> seps,
      initial_offset |-> initial_offset,
      kind |-> IF t = <<>> THEN "empty"
               ELSE IF Head(seps) = <<>> THEN "fallback" ELSE "loop",
      final_splits |-> IF t = <<>> THEN <<>>
                       ELSE IF Head(seps) = <<>>
                            THEN FallbackSegments(t, initial_offset, 0)
                            ELSE LevelSplits(t, Head(seps), initial_offset),
      i |-> 1,
      recursive_splits |-> <<>> ]

\* mutant of NextSeparators: the same separator list is passed down again
NextSeparatorsSame(seps) == seps

\* next_separators = remaining_separators or [""]
NextSeparators(seps) == IF Tail(seps) # <<>> THEN Tail(seps) ELSE << <<>> >>

Top == stack[Len(stack)]

\* mutant of FrameResult: an activation on the empty text returns that text
\* as a fragment
FrameResultKeepsEmpty(f) ==
    IF f.kind = "empty"
    THEN <<Split(<<>>, f.initial_offset, f.initial_offset)>>
    ELSE IF f.kind = "loop" THEN f.recursive_splits ELSE f.final_splits

\* the value the top activation returns
FrameResult(f) == IF f.kind = "loop" THEN f.recursive_splits ELSE f.final_splits

\* chunk(text) is called with a text of the given set.
RecursiveChunkCallOn(texts) ==
    /\ pc = "ready" /\ strategy = "recursive"
    /\ text' \in texts
    /\ chunks' = <<>>
    /\ IF text' = <<>>
       THEN pc' = "done" /\ stack' = <<>>
       ELSE pc' = "split" /\ stack' = <<NewFrame(text', separators, 0)>>
    /\ measured' = FALSE
    /\ UNCHANGED <<config, calls, fixed_locals, splits, current_chunk_parts,
                   current_length, sent_locals, idx, final_chunks>>

\* "for split in final_splits": a split that fits is kept.
SplitKeep ==
    /\ pc = "split"
    /\ Top.kind = "loop" /\ Top.i <= Len(Top.final_splits)
    /\ LF(Top.final_splits[Top.i].text) <= chunk_size
    /\ stack' = [stack EXCEPT ![Len(stack)] =
                    [@ EXCEPT !.recursive_splits =
                                  Append(@, Top.final_splits[Top.i]),
                              !.i = @ + 1]]
    /\ measured' = TRUE
    /\ UNCHANGED <<config, calls, text, pc, chunks, fixed_locals, splits,
                   current_chunk_parts, current_length, sent_locals, idx,
                   final_chunks>>

\* An oversized split is re-split with the next separators.
SplitRecurse ==
    /\ pc = "split"
    /\ Top.kind = "loop" /\ Top.i <= Len(Top.final_splits)
    /\ ~(LF(Top.final_splits[Top.i].text) <= chunk_size)
    /\ Len(stack) < MaxRecursionDepth
    /\ stack' = Append([stack EXCEPT ![Len(stack)] = [@ EXCEPT !.i = @ + 1]],
                       NewFrame(Top.final_splits[Top.i].text,
                                NextSeparators(Top.separators),
                                Top.final_splits[Top.i].start_index))
    /\ measured' = TRUE
    /\ UNCHANGED <<config, calls, text, pc, chunks, fixed_locals, splits,
                   current_chunk_parts, current_length, sent_locals, idx,
                   final_chunks>>

\* The top activation returns: to its caller's extend(), or to chunk().
SplitReturn ==
    /\ pc = "split"
    /\ Top.kind # "loop" \/ Top.i > Len(Top.final_splits)
    /\ IF Len(stack) = 1
       THEN /\ splits' = FrameResult(Top)
            /\ stack' = <<>>
            /\ pc' = "merge"
            /\ idx' = 1
            /\ final_chunks' = <<>>
            /\ current_chunk_parts' = <<>>
            /\ current_length' = 0
       ELSE /\ stack' = [SubSeq(stack, 1, Len(stack) - 1)
                            EXCEPT ![Len(stack) - 1] =
                                [@ EXCEPT !.recursive_splits =
                                              @ \o FrameResult(Top)]]
            /\ UNCHANGED <<pc, splits, idx, final_chunks, current_chunk_parts,
                           current_length>>
    /\ UNCHANGED <<config, calls, text, chunks, fixed_locals, sent_locals, measured>>

\* texts of a list of parts
PartTexts(parts) == [k \in 1..Len(parts) |-> parts[k].text]

\* mutant of MergeTuple: the end offset is taken from the first part
MergeTupleFirstEnd(parts) ==
    [ text |-> Concat(PartTexts(parts)),
      start_index |-> parts[1].start_index,
      end_index |-> parts[1].end_index ]

\* a finished chunk of the merge: (text, start_index, end_index)
MergeTuple(parts) ==
    [ text |-> Concat(PartTexts(parts)),
      start_index |-> parts[1].start_index,
      end_index |-> parts[Len(parts)].end_index ]

RECURSIVE OverlapScanStrict(_, _, _, _)
\* mutant of OverlapScan: a part that fills the overlap exactly is refused
OverlapScanStrict(parts, i, overlap_parts, overlap_len) ==
    IF i < 1 THEN [parts |-> overlap_parts, len |-> overlap_len]
    ELSE IF overlap_len + LF(parts[i].text) >= chunk_overlap
         THEN [parts |-> overlap_parts, len |-> overlap_len]
         ELSE OverlapScanStrict(parts, i - 1, <<parts[i]>> \o overlap_parts,
                                overlap_len + LF(parts[i].text))

RECURSIVE OverlapScan(_, _, _, _)
\* "Determine overlap": walk back from part i while the sum stays within
\* chunk_overlap; returns the retained parts and their summed length
OverlapScan(parts, i, overlap_parts, overlap_len) ==
    IF i < 1 THEN [parts |-> overlap_parts, len |-> overlap_len]
    ELSE IF overlap_len + LF(parts[i].text) > chunk_overlap
         THEN [parts |-> overlap_parts, len |-> overlap_len]
         ELSE OverlapScan(parts, i - 1, <<parts[i]>> \o overlap_parts,
                          overlap_len + LF(parts[i].text))

\* One iteration of "for split in splits" on the locals (final_chunks,
\* current_chunk_parts, current_length) = (final, parts, length).
MergeStepResult(split, final, parts, length) ==
    LET split_len == LF(split.text)
        flush == length + split_len > chunk_size /\ parts # <<>>
        overlap == OverlapScan(parts, Len(parts), <<>>, 0)
    IN  [ final_chunks |-> IF flush THEN Append(final, MergeTuple(parts))
                           ELSE final,
          current_chunk_parts |->
              Append(IF flush THEN overlap.parts ELSE parts, split),
          current_length |->
              (IF flush THEN overlap.len ELSE length) + split_len ]

\* the final flush of _merge_splits_with_indices
FlushParts(final, parts) ==
    IF parts # <<>> THEN Append(final, MergeTuple(parts)) ELSE final

\* One iteration of "for split in splits".
MergeStep ==
    /\ pc = "merge" /\ idx <= Len(splits)
    /\ LET r == MergeStepResult(splits[idx], final_chunks,
                                current_chunk_parts, current_length)
       IN  /\ final_chunks' = r.final_chunks
           /\ current_chunk_parts' = r.current_chunk_parts
           /\ current_length' = r.current_length
    /\ idx' = idx + 1
    /\ measured' = TRUE
    /\ UNCHANGED <<config, calls, text, pc, chunks, fixed_locals, stack, splits,
                   sent_locals>>

RECURSIVE BuildChunks(_, _, _)
\* "for i, (chunk_text, start_index, end_index) in enumerate(chunk_data)"
BuildChunks(built, chunk_data, strat) ==
    IF Len(built) = Len(chunk_data) THEN built
    ELSE LET d == chunk_data[Len(built) + 1]
         IN  BuildChunks(Append(built,
                                NewChunk(built, d.text, d.start_index,
                                         d.end_index, Len(built), strat)),
                         chunk_data, strat)

\* The loop is over: flush what is left, build the Chunk objects, return.
MergeFinish ==
    /\ pc = "merge" /\ idx > Len(splits)
    /\ final_chunks' = FlushParts(final_chunks, current_chunk_parts)
    /\ chunks' = BuildChunks(<<>>, final_chunks', "recursive_character")
    /\ pc' = "done"
    /\ measured' = (measured \/ final_chunks' # <<>>)
    /\ UNCHANGED <<config, calls, text, fixed_locals, stack, splits,
                   current_chunk_parts, current_length, sent_locals, idx>>

RecursiveChunkCall == RecursiveChunkCallOn(SeqsOf(RecAlphabet, 0, MaxRecLen))

\* the same call on the shorter texts of the termination check
ShortRecursiveChunkCall ==
    RecursiveChunkCallOn(SeqsOf(RecAlphabet, 0, MaxTermLen))

NextRecursive ==
    \/ Construct
    \/ RecursiveChunkCall
    \/ SplitKeep
    \/ SplitRecurse
    \/ SplitReturn
    \/ MergeStep
    \/ MergeFinish

SpecRecursive == InitRecursive /\ [][NextRecursive]_vars

(* --------------------------- SentenceChunker --------------------------- *)
InitSentence ==
    /\ strategy = "sentence"
    /\ InitSizes
    /\ length_function \in SentLengthFns
    /\ separators = <<>>
    /\ keep_separator = TRUE
    /\ overlap_sentences \in (-1)..MaxOverlapSentences
    /\ NoRuntHandling
    /\ re_error = FALSE
    /\ InitLocals

\* character classes of the sentence pattern, for the characters the model uses
IsSpace(c) == c \in {" ", "\n", "\t"}

IsUpper(c) == c \in {"A", "X"}

IsLower(c) == c \in {"a"}

IsWordChar(c) == IsUpper(c) \/ IsLower(c) \/ c = "_"

\* the character at 0-based position p
At(t, p) == t[p + 1]

\* Whether (?<!\w\.\w.)(?<![A-Z][a-z]\.)(?<=\.|\?|\!)\s matches at 0-based
\* position p of t.
IsBoundary(t, p) ==
    /\ p < Len(t) /\ IsSpace(At(t, p))
    /\ p >= 1 /\ At(t, p - 1) \in {".", "?", "!"}
    /\ ~(/\ p >= 4
         /\ IsWordChar(At(t, p - 4)) /\ At(t, p - 3) = "."
         /\ IsWordChar(At(t, p - 2)) /\ At(t, p - 1) # "\n")
    /\ ~(/\ p >= 3
         /\ IsUpper(At(t, p - 3)) /\ IsLower(At(t, p - 2))
         /\ At(t, p - 1) = ".")

RECURSIVE LStrip(_)
LStrip(s) == IF s # <<>> /\ IsSpace(Head(s)) THEN LStrip(Tail(s)) ELSE s

RECURSIVE RStrip(_)
RStrip(s) ==
    IF s # <<>> /\ IsSpace(s[Len(s)]) THEN RStrip(SubSeq(s, 1, Len(s) - 1)) ELSE s

\* str.strip()
Strip(s) == RStrip(LStrip(s))

\* str.find(sub): the lowest 0-based index where sub occurs in s, or -1
Find(s, sub) ==
    LET hits == {i \in 0..(Len(s) - Len(sub)) : Slice(s, i, i + Len(sub)) = sub}
    IN  IF hits = {} THEN -1 ELSE CHOOSE i \in hits : \A j \in hits : i <= j

\* _Sentence
Sentence(t, start, end) == [text |-> t, start_index |-> start, end_index |-> end]

\* the sentence of a raw piece starting at last_end, if it is not blank
SentenceOf(raw, last_end) ==
    LET stripped == Strip(raw)
        start_index == last_end + Find(raw, stripped)
    IN  IF stripped # <<>>
        THEN <<Sentence(stripped, start_index, start_index + Len(stripped))>>
        ELSE <<>>

RECURSIVE SentencesFrom(_, _, _)
\* the finditer loop from position p on, then the remaining text
SentencesFrom(t, last_end, p) ==
    IF p >= Len(t) THEN SentenceOf(Slice(t, last_end, Len(t)), last_end)
    ELSE IF IsBoundary(t, p)
         THEN SentenceOf(Slice(t, last_end, p), last_end)
              \o SentencesFrom(t, p + 1, p + 1)
         ELSE SentencesFrom(t, last_end, p + 1)

\* _split_text_with_regex(text)
SplitTextWithRegex(t) == SentencesFrom(t, 0, 0)

\* join_sentence_texts(sents)
JoinSentenceTexts(sents) ==
    JoinWithSpace([k \in 1..Len(sents) |-> sents[k].text])

\* mutant of SentenceTuple: the text is the span of the original text
SentenceTupleSpan(sents) ==
    [ text |-> Slice(text, sents[1].start_index, sents[Len(sents)].end_index),
      start_index |-> sents[1].start_index,
      end_index |-> sents[Len(sents)].end_index ]

\* a finished chunk of the merge: (joined text, start_idx, end_idx)
SentenceTuple(sents) ==
    [ text |-> JoinSentenceTexts(sents),
      start_index |-> sents[1].start_index,
      end_index |-> sents[Len(sents)].end_index ]

\* a sentence emitted on its own: (sentence.text, start_index, end_index)
SingleTuple(sentence) ==
    [ text |-> sentence.text,
      start_index |-> sentence.start_index,
      end_index |-> sentence.end_index ]

\* current_chunk_sentences[-self.overlap_sentences:]
LastSentences(sents, n) == SubSeq(sents, Max(1, Len(sents) - n + 1), Len(sents))

RECURSIVE TokenOverlapScanFor(_, _, _, _)
\* the size-based overlap when self.chunk_overlap is co: walk back from
\* sentence i while the joined text stays within co
TokenOverlapScanFor(co, sents, i, token_overlap_sents) ==
    IF i < 1 THEN token_overlap_sents
    ELSE IF LF(JoinSentenceTexts(<<sents[i]>> \o token_overlap_sents)) > co
         THEN token_overlap_sents
         ELSE TokenOverlapScanFor(co, sents, i - 1,
                                  <<sents[i]>> \o token_overlap_sents)

\* the size-based overlap of this chunker
TokenOverlapScan(sents, i, token_overlap_sents) ==
    TokenOverlapScanFor(chunk_overlap, sents, i, token_overlap_sents)

\* mutant of OverlapSentsFor: the size-based overlap is used in both modes
OverlapSentsForSizeOnly(co, sents) ==
    TokenOverlapScanFor(co, sents, Len(sents), <<>>)

\* overlap_sents when self.chunk_overlap is co
OverlapSentsFor(co, sents) ==
    IF overlap_sentences > 0
    THEN LastSentences(sents, overlap_sentences)
    ELSE TokenOverlapScanFor(co, sents, Len(sents), <<>>)

\* overlap_sents of this chunker
OverlapSents(sents) == OverlapSentsFor(chunk_overlap, sents)

\* mutant of FitsWithSeed: the sentence is appended to the seed unchecked
FitsWithSeedAlways(overlap_sents, sentence) == TRUE

\* whether the sentence fits behind the overlap seed
FitsWithSeed(overlap_sents, sentence) ==
    LF(JoinSentenceTexts(Append(overlap_sents, sentence))) <= chunk_size

\* mutant of EmitStandalone: the sentence that does not fit is dropped
EmitStandaloneDropped(flushed, sentence) == flushed

\* "If the new sentence can't fit even with the overlap, start a new chunk":
\* the sentence is emitted on its own after what was flushed
EmitStandalone(flushed, sentence) == Append(flushed, SingleTuple(sentence))

\* mutant of AfterOversized: the accumulation is not reset
AfterOversizedKeeps(current) == current

\* "current_chunk_sentences = []" after an oversized sentence
AfterOversized(current) == <<>>

\* the flush of what is accumulated, if anything
FlushRemaining(final, current) ==
    IF current # <<>> THEN Append(final, SentenceTuple(current)) ELSE final

\* One iteration of "for sentence in sentences" when self.chunk_overlap is
\* co: the new final_chunks and current_chunk_sentences.
SentenceStepResult(co, sentence, current, final) ==
    LET flushed == FlushRemaining(final, current)
        prospective_chunk == Append(current, sentence)
        overlap_sents == OverlapSentsFor(co, current)
    IN  IF LF(sentence.text) > chunk_size
        THEN [ final_chunks |-> Append(flushed, SingleTuple(sentence)),
               current_chunk_sentences |-> AfterOversized(current) ]
        ELSE IF LF(JoinSentenceTexts(prospective_chunk)) > chunk_size
             THEN IF FitsWithSeed(overlap_sents, sentence)
                  THEN [ final_chunks |-> flushed,
                         current_chunk_sentences |->
                             Append(overlap_sents, sentence) ]
                  ELSE [ final_chunks |-> EmitStandalone(flushed, sentence),
                         current_chunk_sentences |-> <<>> ]
             ELSE [ final_chunks |-> final,
                    current_chunk_sentences |-> prospective_chunk ]

RECURSIVE MergeSentencesFrom(_, _, _, _, _)
\* the loop of _merge_sentences from sentence i on, and the final flush
MergeSentencesFrom(co, sents, i, current, final) ==
    IF i > Len(sents) THEN FlushRemaining(final, current)
    ELSE LET r == SentenceStepResult(co, sents[i], current, final)
         IN  MergeSentencesFrom(co, sents, i + 1, r.current_chunk_sentences,
                                r.final_chunks)

\* _merge_sentences(sentences) of a chunker whose chunk_overlap is co
MergeSentences(co, sents) == MergeSentencesFrom(co, sents, 1, <<>>, <<>>)

SentenceChunkCall ==
    /\ pc = "ready" /\ strategy = "sentence"
    /\ text' \in SeqsOf(SentAlphabet, 0, MaxSentLen)
    /\ chunks' = <<>>
    /\ final_chunks' = <<>>
    /\ current_chunk_sentences' = <<>>
    /\ idx' = 1
    /\ IF text' = <<>>
       THEN pc' = "done" /\ sentences' = <<>>
       ELSE pc' = "sent_merge" /\ sentences' = SplitTextWithRegex(text')
    /\ measured' = FALSE
    /\ UNCHANGED <<config, calls, fixed_locals, rec_locals>>

\* One iteration of "for sentence in sentences".
SentenceStep ==
    /\ pc = "sent_merge" /\ idx <= Len(sentences)
    /\ LET r == SentenceStepResult(chunk_overlap, sentences[idx],
                                   current_chunk_sentences, final_chunks)
       IN  /\ final_chunks' = r.final_chunks
           /\ current_chunk_sentences' = r.current_chunk_sentences
    /\ idx' = idx + 1
    /\ measured' = TRUE
    /\ UNCHANGED <<config, calls, text, pc, chunks, fixed_locals, rec_locals, sentences>>

\* The loop is over: flush what is left, build the Chunk objects, return.
SentenceFinish ==
    /\ pc = "sent_merge" /\ idx > Len(sentences)
    /\ final_chunks' = FlushRemaining(final_chunks, current_chunk_sentences)
    /\ chunks' = BuildChunks(<<>>, final_chunks', "sentence")
    /\ pc' = "done"
    /\ measured' = (measured \/ final_chunks' # <<>>)
    /\ UNCHANGED <<config, calls, text, fixed_locals, rec_locals, sent_locals, idx>>

NextSentence ==
    \/ Construct
    \/ SentenceChunkCall
    \/ SentenceStep
    \/ SentenceFinish

SpecSentence == InitSentence /\ [][NextSentence]_vars

(* ---------------------------- all strategies --------------------------- *)
Init == InitFixed \/ InitRecursive \/ InitSentence

Next ==
    \/ Construct
    \/ FixedChunkCall
    \/ FixedLoop
    \/ RecursiveChunkCall
    \/ SplitKeep
    \/ SplitRecurse
    \/ SplitReturn
    \/ MergeStep
    \/ MergeFinish
    \/ SentenceChunkCall
    \/ SentenceStep
    \/ SentenceFinish

Spec == Init /\ [][Next]_vars

NextRecursiveShort ==
    \/ Construct
    \/ ShortRecursiveChunkCall
    \/ SplitKeep
    \/ SplitRecurse
    \/ SplitReturn
    \/ MergeStep
    \/ MergeFinish

\* chunk() runs to completion once called: the scheduler is the Python
\* interpreter executing the call.
FairSpecRecursive ==
    InitRecursive /\ [][NextRecursiveShort]_vars /\ WF_vars(NextRecursiveShort)

(* ----------------- separators that look like patterns ------------------ *)
\* separators=["("] and separators=["["] of the test-suite
SepParen == <<"(">>
SepBracket == <<"[">>

PatternAlphabet == {"a", "("}

PatternSeparatorLists == { <<SepParen>>, <<SepBracket>>, <<SepParen, SepBracket>> }

PatternLengthFns == {"len", "times3"}

\* a RecursiveCharacterChunker with such separators; the regex engine accepts
\* the escaped patterns or rejects them
InitPattern ==
    /\ strategy = "recursive"
    /\ chunk_size \in 0..MaxRecChunkSize
    /\ chunk_overlap \in 0..MaxRecChunkSize
    /\ length_function \in PatternLengthFns
    /\ separators \in PatternSeparatorLists
    /\ keep_separator \in BOOLEAN
    /\ overlap_sentences = 0
    /\ NoRuntHandling
    /\ re_error \in BOOLEAN
    /\ InitLocals

PatternChunkCall ==
    RecursiveChunkCallOn(SeqsOf(PatternAlphabet, 0, MaxTermLen))

NextPattern ==
    \/ Construct
    \/ PatternChunkCall
    \/ SplitKeep
    \/ SplitRecurse
    \/ SplitReturn
    \/ MergeStep
    \/ MergeFinish

FairSpecPattern ==
    InitPattern /\ [][NextPattern]_vars /\ WF_vars(NextPattern)

(* ------------------ two chunk() calls on one chunker ------------------- *)
(* Two callers (threads) call chunk(text) on the same chunker with the     *)
(* same text.  Every name chunk() assigns is a local of the call, so each  *)
(* caller has its own copy; the chunker's fields and the text are shared.  *)
(* One step of a caller is one loop iteration of its call.                 *)
Callers == {"first", "second"}

RECURSIVE SplitTextWithIndices(_, _, _)
RECURSIVE ResplitOversized(_, _)
\* _split_text_with_indices(t, seps, initial_offset) as the value it returns
SplitTextWithIndices(t, seps, initial_offset) ==
    LET f == NewFrame(t, seps, initial_offset)
    IN  IF f.kind = "loop"
        THEN ResplitOversized(f.final_splits, NextSeparators(seps))
        ELSE f.final_splits

\* "for split in final_splits": keep what fits, re-split what does not
ResplitOversized(final_splits, next_separators) ==
    IF final_splits = <<>> THEN <<>>
    ELSE LET split == Head(final_splits)
         IN  (IF LF(split.text) <= chunk_size THEN <<split>>
              ELSE SplitTextWithIndices(split.text, next_separators,
                                        split.start_index))
             \o ResplitOversized(Tail(final_splits), next_separators)

\* a caller that has not entered chunk(): no locals yet
IdleLocals ==
    [ pc |-> "idle", chunks |-> <<>>, start_char |-> 0, sequence_number |-> 0,
      splits |-> <<>>, sentences |-> <<>>, idx |-> 0, final_chunks |-> <<>>,
      current_chunk_parts |-> <<>>, current_length |-> 0,
      current_chunk_sentences |-> <<>> ]

\* mutant of EnteredLocals: the chunk list is the one an earlier call filled
EnteredLocalsKeepsChunks ==
    [ IdleLocals EXCEPT
        !.pc = IF text = <<>> THEN "done"
               ELSE IF strategy = "fixed" THEN "fixed_loop"
               ELSE IF strategy = "recursive" THEN "split" ELSE "sent_split",
        !.chunks = IF \E k \in Callers : calls[k].chunks # <<>>
                   THEN calls[CHOOSE k \in Callers : calls[k].chunks # <<>>].chunks
                   ELSE <<>>,
        !.idx = 1 ]

\* the locals of a call that has passed "if not text: return []" and
\* initialised its buffers
EnteredLocals ==
    [ IdleLocals EXCEPT
        !.pc = IF text = <<>> THEN "done"
               ELSE IF strategy = "fixed" THEN "fixed_loop"
               ELSE IF strategy = "recursive" THEN "split" ELSE "sent_split",
        !.idx = 1 ]

\* the locals of a call after its next step
LocalsAfter(f) ==
    CASE f.pc = "fixed_loop" ->
            LET r == FixedIteration(f.chunks, f.start_char, f.sequence_number)
            IN  [ f EXCEPT !.pc = r.pc, !.chunks = r.chunks,
                           !.start_char = r.start_char,
                           !.sequence_number = r.sequence_number ]
      [] f.pc = "split" ->
            [ f EXCEPT !.pc = "merge",
                       !.splits = SplitTextWithIndices(text, separators, 0) ]
      [] f.pc = "merge" /\ f.idx <= Len(f.splits) ->
            LET r == MergeStepResult(f.splits[f.idx], f.final_chunks,
                                     f.current_chunk_parts, f.current_length)
            IN  [ f EXCEPT !.final_chunks = r.final_chunks,
                           !.current_chunk_parts = r.current_chunk_parts,
                           !.current_length = r.current_length,
                           !.idx = f.idx + 1 ]
      [] f.pc = "merge" /\ f.idx > Len(f.splits) ->
            LET final == FlushParts(f.final_chunks, f.current_chunk_parts)
            IN  [ f EXCEPT !.final_chunks = final,
                           !.chunks = BuildChunks(<<>>, final,
                                                  "recursive_character"),
                           !.pc = "done" ]
      [] f.pc = "sent_split" ->
            [ f EXCEPT !.pc = "sent_merge",
                       !.sentences = SplitTextWithRegex(text) ]
      [] f.pc = "sent_merge" /\ f.idx <= Len(f.sentences) ->
            LET r == SentenceStepResult(chunk_overlap, f.sentences[f.idx],
                                        f.current_chunk_sentences,
                                        f.final_chunks)
            IN  [ f EXCEPT !.final_chunks = r.final_chunks,
                           !.current_chunk_sentences =
                               r.current_chunk_sentences,
                           !.idx = f.idx + 1 ]
      [] f.pc = "sent_merge" /\ f.idx > Len(f.sentences) ->
            LET final == FlushRemaining(f.final_chunks,
                                        f.current_chunk_sentences)
            IN  [ f EXCEPT !.final_chunks = final,
                           !.chunks = BuildChunks(<<>>, final, "sentence"),
                           !.pc = "done" ]

\* the text both callers pass
SharedTexts ==
    IF strategy = "fixed" THEN SeqsOf(FixedAlphabet, 0, MaxTwoCallLen)
    ELSE IF strategy = "recursive" THEN SeqsOf(RecAlphabet, 0, MaxTwoCallLen)
    ELSE SeqsOf(SentAlphabet, 0, MaxTwoCallLen)

\* the callers get hold of the chunker and the text
ShareText ==
    /\ pc = "ready"
    /\ text' \in SharedTexts
    /\ pc' = "calling"
    /\ calls' = [c \in Callers |-> IdleLocals]
    /\ UNCHANGED <<config, chunks, fixed_locals, rec_locals, sent_locals, idx,
                   final_chunks, measured>>

\* caller c enters chunk(text)
CallEnter(c) ==
    /\ pc = "calling" /\ calls[c].pc = "idle"
    /\ calls' = [calls EXCEPT ![c] = EnteredLocals]
    /\ UNCHANGED <<config, text, pc, chunks, fixed_locals, rec_locals,
                   sent_locals, idx, final_chunks, measured>>

\* caller c runs one step of its call
CallStep(c) ==
    /\ pc = "calling" /\ calls[c].pc \notin {"idle", "done"}
    /\ calls' = [calls EXCEPT ![c] = LocalsAfter(calls[c])]
    /\ UNCHANGED <<config, text, pc, chunks, fixed_locals, rec_locals,
                   sent_locals, idx, final_chunks, measured>>

NextTwoCalls ==
    \/ Construct
    \/ ShareText
    \/ \E c \in Callers : CallEnter(c)
    \/ \E c \in Callers : CallStep(c)

SpecTwoCalls == Init /\ [][NextTwoCalls]_vars

(* ------------------- Runt Postprocessor and Linker --------------------- *)
(* BaseChunker._link_chunks(chunks, chunk_size) is called by the test-suite *)
(* (DummyChunker) but is not part of chunkers.py; it is modelled from       *)
(* sections 4.4, 4.5 and 7 of the specification.  DummyChunker hands it a   *)
(* canned chunk list.                                                       *)

RuntLengthFns == {"len", "pair"}

RuntPolicies == {"keep", "discard", "merge"}

\* one letter per canned chunk, so that every chunk's text is its own
CannedLetters == <<"a", "b", "c", "d", "e">>

RECURSIVE CannedChunks(_, _, _)
\* Chunk(text_for_generation=..., start_char_index=..., end_char_index=...)
\* for texts of the given lengths laid end to end; the other fields keep
\* their dataclass defaults
CannedChunks(built, lens, start) ==
    IF Len(built) = Len(lens) THEN built
    ELSE LET k == Len(built) + 1
             end == start + lens[k]
         IN  CannedChunks(
                 Append(built,
                        [ text_for_generation |->
                              [n \in 1..lens[k] |-> CannedLetters[k]],
                          chunk_id |-> FreshId(built),
                          previous_chunk_id |-> None,
                          next_chunk_id |-> None,
                          start_char_index |-> start,
                          end_char_index |-> end,
                          sequence_number |-> 0,
                          token_count |-> 0,
                          chunking_strategy_used |-> "unknown" ]),
                 lens, end)

\* DummyChunker(chunks_to_return, chunk_size, **kwargs)
InitDummy ==
    /\ strategy = "dummy"
    /\ chunk_size \in 1..MaxDummyChunkSize
    /\ chunk_overlap = 0
    /\ length_function \in RuntLengthFns
    /\ separators = <<>>
    /\ keep_separator = TRUE
    /\ overlap_sentences = 0
    /\ minimum_chunk_size \in (-1)..MaxMinimumSize
    /\ runt_handling \in RuntPolicies \cup {"invalid_policy"}
    /\ \E lens \in SeqsOf(1..MaxCannedLen, 0, MaxCannedChunks) :
          chunks_to_return = CannedChunks(<<>>, lens, 0)
    /\ re_error = FALSE
    /\ InitLocals

\* section 7: negative minimum runt size; unrecognized runt-handling policy
RuntConfigError ==
    \/ minimum_chunk_size < 0
    \/ runt_handling \notin RuntPolicies

\* DummyChunker.__init__ -> BaseChunker.__init__
ConstructDummy ==
    /\ pc = "new" /\ strategy = "dummy"
    /\ pc' = IF RuntConfigError THEN "error" ELSE "ready"
    /\ UNCHANGED <<config, calls, text, chunks, fixed_locals, rec_locals,
                   sent_locals, idx, final_chunks, measured>>

\* a chunk whose measured size is below the configured minimum
IsRunt(c) == LF(c.text_for_generation) < minimum_chunk_size

\* mutant of MergedChunk: the predecessor's end offset is not extended
MergedChunkKeepsEnd(p, c) ==
    [p EXCEPT !.text_for_generation = @ \o c.text_for_generation,
              !.token_count = LF(p.text_for_generation \o c.text_for_generation)]

\* the predecessor p after the runt c is merged into it: texts concatenated,
\* end_char_index extended, p's chunk_id kept
MergedChunk(p, c) ==
    [p EXCEPT !.text_for_generation = @ \o c.text_for_generation,
              !.end_char_index = c.end_char_index,
              !.token_count = LF(p.text_for_generation \o c.text_for_generation)]

\* mutant of MergeInto: a merged chunk that is still a runt stays where it is
MergeIntoOnce(processed, c) ==
    IF processed = <<>> THEN <<c>>
    ELSE LET p == processed[Len(processed)]
             m == MergedChunk(p, c)
         IN  IF LF(m.text_for_generation) > chunk_size
             THEN Append(processed, c)
             ELSE Append(SubSeq(processed, 1, Len(processed) - 1), m)

RECURSIVE MergeInto(_, _)
\* merge policy for the runt c behind the chunks processed so far: merge
\* into the immediate predecessor unless there is none or the merged size
\* would exceed chunk_size; a merged chunk that is still a runt goes on
\* merging
MergeInto(processed, c) ==
    IF processed = <<>> THEN <<c>>
    ELSE LET p == processed[Len(processed)]
             m == MergedChunk(p, c)
             before == SubSeq(processed, 1, Len(processed) - 1)
         IN  IF LF(m.text_for_generation) > chunk_size
             THEN Append(processed, c)
             ELSE IF IsRunt(m) THEN MergeInto(before, m)
                  ELSE Append(before, m)

\* mutant of RuntPlace: discard also drops a chunk of exactly the minimum
RuntPlaceInclusive(processed, c) ==
    CASE runt_handling = "keep" -> Append(processed, c)
      [] runt_handling = "discard" ->
            IF LF(c.text_for_generation) <= minimum_chunk_size
            THEN processed ELSE Append(processed, c)
      [] runt_handling = "merge" ->
            IF IsRunt(c) THEN MergeInto(processed, c) ELSE Append(processed, c)

\* the cleaned sequence after the next chunk c of the left-to-right scan
RuntPlace(processed, c) ==
    CASE runt_handling = "keep" -> Append(processed, c)
      [] runt_handling = "discard" ->
            IF IsRunt(c) THEN processed ELSE Append(processed, c)
      [] runt_handling = "merge" ->
            IF IsRunt(c) THEN MergeInto(processed, c) ELSE Append(processed, c)

\* section 4.5: sequence numbers and pairwise links over the final sequence
LinkChunks(cs) ==
    [k \in 1..Len(cs) |->
        [cs[k] EXCEPT
            !.sequence_number = k - 1,
            !.previous_chunk_id = IF k > 1 THEN cs[k - 1].chunk_id ELSE None,
            !.next_chunk_id = IF k < Len(cs) THEN cs[k + 1].chunk_id ELSE None]]

\* DummyChunker.chunk(text): the text is ignored, the canned chunks are
\* handed to _link_chunks
DummyChunkCall ==
    /\ pc = "ready" /\ strategy = "dummy"
    /\ pc' = "runt_scan"
    /\ chunks' = <<>>
    /\ final_chunks' = <<>>
    /\ idx' = 1
    /\ measured' = FALSE
    /\ UNCHANGED <<config, calls, text, fixed_locals, rec_locals, sent_locals>>

\* One chunk of the left-to-right scan.
RuntStep ==
    /\ pc = "runt_scan" /\ idx <= Len(chunks_to_return)
    /\ final_chunks' = RuntPlace(final_chunks, chunks_to_return[idx])
    /\ idx' = idx + 1
    /\ measured' = (measured \/ runt_handling # "keep")
    /\ UNCHANGED <<config, calls, text, pc, chunks, fixed_locals, rec_locals,
                   sent_locals>>

\* The scan is over: the linker runs and the sequence is returned.
RuntFinish ==
    /\ pc = "runt_scan" /\ idx > Len(chunks_to_return)
    /\ chunks' = LinkChunks(final_chunks)
    /\ pc' = "done"
    /\ UNCHANGED <<config, calls, text, fixed_locals, rec_locals, sent_locals, idx,
                   final_chunks, measured>>

NextDummy ==
    \/ ConstructDummy
    \/ DummyChunkCall
    \/ RuntStep
    \/ RuntFinish

SpecRunt == InitDummy /\ [][NextDummy]_vars

(* ------------------------------- claims -------------------------------- *)
Returned == pc = "done"

\* The chunk ranges cover t: first starts at 0, last ends at len(t), every
\* text is the slice of its offsets, and no chunk starts after its
\* predecessor's end.
Covers(cs, t) ==
    /\ cs # <<>>
    /\ cs[1].start_char_index = 0
    /\ cs[Len(cs)].end_char_index = Len(t)
    /\ \A k \in 1..Len(cs) :
          cs[k].text_for_generation
             = Slice(t, cs[k].start_char_index, cs[k].end_char_index)
    /\ \A k \in 1..(Len(cs) - 1) :
          cs[k + 1].start_char_index <= cs[k].end_char_index

\* C1: for every non-empty text and size function, the chunks FixedSizeChunker
\* returns start at 0, end at len(text), carry text[start:end], and each
\* starts at or before its predecessor's end.
C1_FixedCoverage ==
    (Returned /\ strategy = "fixed" /\ text # <<>>) => Covers(chunks, text)

\* a returned fixed-size sequence, under a non-additive size function, whose
\* second chunk overlaps the first
C1_Witness ==
    /\ Returned /\ strategy = "fixed" /\ length_function = "split_spaces"
    /\ Len(chunks) >= 3
    /\ chunks[2].start_char_index < chunks[1].end_char_index

\* Whether chunk c contains the sentence s.
Contains(c, s) ==
    c.start_char_index <= s.start_index /\ s.end_index <= c.end_char_index

\* C2: SentenceChunker drops no sentence: every segmented sentence lies in a
\* returned chunk, and so does every non-whitespace character of the text.
C2_NoSentenceDropped ==
    (Returned /\ strategy = "sentence") =>
        /\ \A i \in 1..Len(sentences) :
              \E k \in 1..Len(chunks) : Contains(chunks[k], sentences[i])
        /\ \A p \in 0..(Len(text) - 1) :
              ~IsSpace(At(text, p)) =>
                 \E k \in 1..Len(chunks) :
                    /\ chunks[k].start_char_index <= p
                    /\ p < chunks[k].end_char_index

\* the second sentence fitted neither the accumulation nor the non-empty
\* overlap seed, and was emitted as its own chunk
C2_Witness ==
    /\ Returned /\ strategy = "sentence"
    /\ Len(sentences) = 2 /\ Len(chunks) = 2
    /\ OverlapSents(<<sentences[1]>>) # <<>>
    /\ ~FitsWithSeed(OverlapSents(<<sentences[1]>>), sentences[2])
    /\ chunks[2].text_for_generation = sentences[2].text
    /\ chunks[2].start_char_index = sentences[2].start_index

\* C3: with keep_separator=True the chunks RecursiveCharacterChunker returns
\* for a non-empty text cover it without a gap.
C3_RecursiveCoverage ==
    (Returned /\ strategy = "recursive" /\ keep_separator /\ text # <<>>)
        => Covers(chunks, text)

\* a returned sequence with kept separators, a re-split fragment and an
\* overlapping second chunk
C3_Witness ==
    /\ Returned /\ strategy = "recursive" /\ keep_separator
    /\ separators = <<SepDashes, SepSpace>>
    /\ Len(chunks) >= 3 /\ Len(splits) > Len(chunks)
    /\ chunks[2].start_char_index < chunks[1].end_char_index

\* C4: no returned chunk has zero-length text.
C4_NoEmptyChunk ==
    Returned => \A k \in 1..Len(chunks) : chunks[k].text_for_generation # <<>>

\* C5: every chunk FixedSizeChunker builds measures at most chunk_size,
\* except a one-character chunk whose character alone is oversized.
C5_FixedSizeBound ==
    strategy = "fixed" =>
        \A k \in 1..Len(chunks) :
            \/ LF(chunks[k].text_for_generation) <= chunk_size
            \/ Len(chunks[k].text_for_generation) = 1

\* a returned sequence holding a full multi-character window and an
\* oversized one-character chunk
C5_Witness ==
    /\ Returned /\ strategy = "fixed"
    /\ \E k \in 1..Len(chunks) :
          /\ Len(chunks[k].text_for_generation) >= 2
          /\ LF(chunks[k].text_for_generation) = chunk_size
    /\ \E k \in 1..Len(chunks) :
          LF(chunks[k].text_for_generation) > chunk_size

\* C6: every chunk RecursiveCharacterChunker returns measures at most
\* chunk_size, also when it begins with fragments kept as overlap (stated
\* here for the default character count).
C6_RecursiveSizeBound ==
    (Returned /\ strategy = "recursive" /\ length_function = "len") =>
        \A k \in 1..Len(chunks) :
            LF(chunks[k].text_for_generation) <= chunk_size

\* Whether tuple or chunk text/offsets d is exactly the sentence s.
IsSentence(txt, start, end, s) ==
    txt = s.text /\ start = s.start_index /\ end = s.end_index

\* C7: every chunk SentenceChunker builds measures at most chunk_size on its
\* joined text, in both overlap modes, unless it is a single sentence whose
\* own size exceeds chunk_size.
C7_SentenceSizeBound ==
    strategy = "sentence" =>
        /\ \A k \in 1..Len(final_chunks) :
              \/ LF(final_chunks[k].text) <= chunk_size
              \/ \E i \in 1..Len(sentences) :
                    /\ LF(sentences[i].text) > chunk_size
                    /\ IsSentence(final_chunks[k].text,
                                  final_chunks[k].start_index,
                                  final_chunks[k].end_index, sentences[i])
        /\ \A k \in 1..Len(chunks) :
              \/ LF(chunks[k].text_for_generation) <= chunk_size
              \/ \E i \in 1..Len(sentences) :
                    /\ LF(sentences[i].text) > chunk_size
                    /\ IsSentence(chunks[k].text_for_generation,
                                  chunks[k].start_char_index,
                                  chunks[k].end_char_index, sentences[i])

\* a returned sequence with a chunk of two sentences that starts with the
\* size-based overlap seed and measures exactly chunk_size
C7_Witness ==
    /\ Returned /\ strategy = "sentence" /\ overlap_sentences = 0
    /\ \E k \in 2..Len(chunks) : \E i \in 1..(Len(sentences) - 1) :
          /\ chunks[k].start_char_index = sentences[i].start_index
          /\ chunks[k].end_char_index = sentences[i + 1].end_index
          /\ chunks[k].start_char_index < chunks[k - 1].end_char_index
          /\ LF(chunks[k].text_for_generation) = chunk_size

\* C8: in every strategy, chunk offsets are in range and chunk starts never
\* decrease along the sequence.
C8_MonotonicOffsets ==
    /\ \A k \in 1..Len(chunks) :
          /\ 0 <= chunks[k].start_char_index
          /\ chunks[k].start_char_index <= chunks[k].end_char_index
          /\ chunks[k].end_char_index <= Len(text)
    /\ \A k \in 1..(Len(chunks) - 1) :
          chunks[k].start_char_index <= chunks[k + 1].start_char_index

\* a returned recursive sequence of three chunks with strictly increasing
\* starts, the second overlapping the first and the last ending the text
C8_Witness ==
    /\ Returned /\ strategy = "recursive" /\ Len(chunks) = 3
    /\ chunks[1].start_char_index < chunks[2].start_char_index
    /\ chunks[2].start_char_index < chunks[1].end_char_index
    /\ chunks[2].start_char_index < chunks[3].start_char_index
    /\ chunks[3].end_char_index = Len(text)

\* the recursion of _split_text_with_indices: each activation's separator
\* list is strictly shorter than its caller's or is the terminal [""], and
\* the depth stays within len(separators) + 1
SplitDepthBounded ==
    pc = "split" =>
        /\ Len(stack) <= Len(separators) + 1
        /\ Len(stack) < MaxRecursionDepth
        /\ \A k \in 2..Len(stack) :
              \/ Len(stack[k].separators) < Len(stack[k - 1].separators)
              \/ stack[k].separators = << <<>> >>

\* C9: RecursiveCharacterChunker.chunk terminates for every text, separator
\* list and size function: the recursion depth is bounded as above and every
\* call, once made, returns.
C9_RecursiveTerminates ==
    /\ []SplitDepthBounded
    /\ (pc = "ready") ~> Returned

\* the recursion at its deepest for a list without the empty string, and a
\* zero-length fragment the size function reports as oversized being re-split
C9_Witness ==
    /\ pc = "split" /\ length_function = "empty_oversized"
    /\ ~keep_separator
    /\ Len(stack) = Len(separators) + 1
    /\ Top.kind = "empty"

\* C10: the returned chunks are linked: each next_chunk_id is the next
\* chunk's id, each previous_chunk_id the previous chunk's, the first has no
\* previous and the last no next.
C10_LinkConsistency ==
    Returned =>
        /\ \A k \in 1..(Len(chunks) - 1) :
              /\ chunks[k].next_chunk_id = chunks[k + 1].chunk_id
              /\ chunks[k + 1].previous_chunk_id = chunks[k].chunk_id
        /\ chunks # <<>> =>
              /\ chunks[1].previous_chunk_id = None
              /\ chunks[Len(chunks)].next_chunk_id = None

\* C11: in every strategy the chunk at position i of the returned sequence
\* (and of the sequence while it is built) has sequence_number i, counted
\* from 0: consecutive, no gap, no repeat.
C11_SequenceNumbering ==
    \A k \in 1..Len(chunks) : chunks[k].sequence_number = k - 1

\* a returned sentence sequence of at least three chunks
C11_Witness ==
    /\ Returned /\ strategy = "sentence" /\ Len(chunks) >= 3
    /\ chunks[3].sequence_number = 2

\* the configurations the constructors are said to reject
InvalidConfiguration ==
    \/ chunk_size <= 0
    \/ chunk_overlap < 0
    \/ strategy \in {"fixed", "recursive"} /\ chunk_overlap >= chunk_size
    \/ strategy = "sentence" /\ overlap_sentences = 0
                             /\ chunk_overlap >= chunk_size
    \/ strategy = "sentence" /\ overlap_sentences < 0

\* C12: a chunker with chunk_size <= 0, chunk_overlap < 0, chunk_overlap >=
\* chunk_size (SentenceChunker: only when overlap_sentences = 0) or
\* overlap_sentences < 0 is never constructed: the constructor fails, and
\* chunk() never runs with such a configuration.
C12_ErrorsAtConstruction ==
    InvalidConfiguration =>
        /\ pc \in {"new", "error"}
        /\ text = <<>> /\ chunks = <<>> /\ ~measured

\* a SentenceChunker rejected only for chunk_overlap >= chunk_size
C12_Witness ==
    /\ pc = "error" /\ strategy = "sentence"
    /\ chunk_size > 0 /\ chunk_overlap >= chunk_size /\ overlap_sentences = 0

\* C13: chunk("") returns the empty sequence in every strategy, under every
\* valid configuration and size function, and the size function is never
\* called; no loop of chunk() is ever entered with the empty text.
C13_EmptyInput ==
    /\ (Returned /\ text = <<>>) => (chunks = <<>> /\ ~measured)
    /\ pc \in {"fixed_loop", "split", "merge", "sent_merge"} => text # <<>>

\* chunk("") has returned under a size function that reports the empty
\* string as oversized
C13_Witness ==
    /\ Returned /\ text = <<>> /\ length_function = "empty_oversized"
    /\ chunks = <<>>

\* C14: FixedSizeChunker with the character count, size s and overlap o:
\* chunk i starts at i*(s-o) and ends at min(i*(s-o)+s, n); the returned
\* sequence ends with the first chunk whose end is n.
C14_FixedOffsets ==
    (strategy = "fixed" /\ length_function = "len") =>
        /\ \A k \in 1..Len(chunks) :
              /\ chunks[k].start_char_index
                    = (k - 1) * (chunk_size - chunk_overlap)
              /\ chunks[k].end_char_index
                    = Min((k - 1) * (chunk_size - chunk_overlap) + chunk_size,
                          Len(text))
        /\ (Returned /\ text # <<>>) =>
              /\ chunks # <<>>
              /\ chunks[Len(chunks)].end_char_index = Len(text)
              /\ \A k \in 1..(Len(chunks) - 1) :
                    chunks[k].end_char_index < Len(text)

\* a returned character-count sequence of three overlapping windows
C14_Witness ==
    /\ Returned /\ strategy = "fixed" /\ length_function = "len"
    /\ chunk_overlap > 0 /\ Len(chunks) >= 3
    /\ chunks[3].start_char_index = 2 * (chunk_size - chunk_overlap)

\* Whether no separator listed before the first empty string occurs in t.
NoEarlierSeparator(t, seps) ==
    \A k \in 1..Len(seps) :
        (\A j \in 1..k : seps[j] # <<>>) => Find(t, seps[k]) = -1

\* ceil(a / b) for b > 0
CeilDiv(a, b) == (a + b - 1) \div b

\* C15: RecursiveCharacterChunker with the character count and chunk_overlap
\* 0, on a text in which no separator before the empty string occurs,
\* returns ceil(n / chunk_size) chunks, chunk i being
\* text[i*chunk_size : (i+1)*chunk_size] starting at i*chunk_size.
C15_EmptySeparatorFallback ==
    (/\ Returned /\ strategy = "recursive" /\ length_function = "len"
     /\ chunk_overlap = 0 /\ NoEarlierSeparator(text, separators)) =>
        /\ Len(chunks) = CeilDiv(Len(text), chunk_size)
        /\ \A k \in 1..Len(chunks) :
              /\ chunks[k].start_char_index = (k - 1) * chunk_size
              /\ chunks[k].text_for_generation
                    = Slice(text, (k - 1) * chunk_size, k * chunk_size)

\* the fallback was reached through two separators that do not occur and
\* the implicit empty string, and the last chunk is shorter than the others
C15_Witness ==
    /\ Returned /\ strategy = "recursive" /\ length_function = "len"
    /\ chunk_overlap = 0 /\ separators = <<SepDashes, SepSpace>>
    /\ NoEarlierSeparator(text, separators)
    /\ Len(chunks) = 2
    /\ Len(chunks[1].text_for_generation) = chunk_size
    /\ Len(chunks[2].text_for_generation) < chunk_size

\* Whether a text measures below the configured minimum.
BelowMinimum(t) == LengthFunction(length_function, t) < minimum_chunk_size

\* The run of canned chunks a returned chunk stands for: the canned chunk
\* whose chunk_id it carries, up to the one before the next returned chunk's.
GroupFirst(k) == chunks[k].chunk_id

GroupLast(k) ==
    IF k < Len(chunks) THEN chunks[k + 1].chunk_id - 1
    ELSE Len(chunks_to_return)

\* the concatenated texts of cs[a..b]
TextsOf(cs, a, b) ==
    Concat([j \in 1..(b - a + 1) |-> cs[a + j - 1].text_for_generation])

\* C16: with runt_handling = "merge" each returned chunk is a canned chunk
\* followed by the chunks merged into it: it keeps the first one's chunk_id
\* and start, carries the concatenated texts and the last one's
\* end_char_index; a merge was triggered by a runt and never exceeds
\* chunk_size; a runt is left standalone only as the first chunk or when
\* merging it into its predecessor would exceed chunk_size.
C16_RuntMerge ==
    (Returned /\ strategy = "dummy" /\ runt_handling = "merge") =>
        /\ (chunks = <<>>) <=> (chunks_to_return = <<>>)
        /\ chunks # <<>> => GroupFirst(1) = 1
        /\ \A k \in 1..Len(chunks) :
              LET a == GroupFirst(k)
                  b == GroupLast(k)
              IN  /\ a \in 1..Len(chunks_to_return) /\ a <= b
                  /\ chunks[k].chunk_id = chunks_to_return[a].chunk_id
                  /\ chunks[k].start_char_index
                        = chunks_to_return[a].start_char_index
                  /\ chunks[k].end_char_index
                        = chunks_to_return[b].end_char_index
                  /\ chunks[k].text_for_generation
                        = TextsOf(chunks_to_return, a, b)
                  /\ b > a =>
                        /\ BelowMinimum(chunks_to_return[b].text_for_generation)
                        /\ LengthFunction(length_function,
                                          chunks[k].text_for_generation)
                              <= chunk_size
                  /\ (k > 1 /\ a = b
                      /\ BelowMinimum(chunks[k].text_for_generation)) =>
                        LengthFunction(length_function,
                                       chunks[k - 1].text_for_generation
                                          \o chunks[k].text_for_generation)
                           > chunk_size

\* a runt first chunk was kept, the next runt was merged into it, and a
\* third runt was left standalone because the merge would exceed chunk_size
C16_Witness ==
    /\ Returned /\ strategy = "dummy" /\ runt_handling = "merge"
    /\ Len(chunks_to_return) = 3 /\ Len(chunks) = 2
    /\ GroupLast(1) = 2
    /\ BelowMinimum(chunks_to_return[1].text_for_generation)
    /\ BelowMinimum(chunks[2].text_for_generation)

\* C17: merging is transitive: no returned chunk produced by a merge is
\* still a runt that fits into its predecessor, and the consecutive runts
\* that follow a returned chunk's first canned chunk are all merged into it
\* as long as the running total fits in chunk_size.
C17_RuntMergeTransitive ==
    (Returned /\ strategy = "dummy" /\ runt_handling = "merge") =>
        /\ \A k \in 2..Len(chunks) :
              (/\ GroupLast(k) > GroupFirst(k)
               /\ BelowMinimum(chunks[k].text_for_generation)) =>
                  LengthFunction(length_function,
                                 chunks[k - 1].text_for_generation
                                    \o chunks[k].text_for_generation)
                     > chunk_size
        /\ \A k \in 1..Len(chunks) :
              \A b \in (GroupFirst(k) + 1)..Len(chunks_to_return) :
                 (\A j \in (GroupFirst(k) + 1)..b :
                     /\ BelowMinimum(chunks_to_return[j].text_for_generation)
                     /\ LengthFunction(length_function,
                                       TextsOf(chunks_to_return,
                                               GroupFirst(k), j))
                           <= chunk_size)
                 => GroupLast(k) >= b

\* a runt merged into a chunk that was no runt, the result was a runt and
\* went on to merge into the chunk before: three canned chunks became one
C17_Witness ==
    /\ Returned /\ strategy = "dummy" /\ runt_handling = "merge"
    /\ Len(chunks_to_return) = 3 /\ Len(chunks) = 1
    /\ ~BelowMinimum(chunks_to_return[2].text_for_generation)

\* what the postprocessor may not change in a chunk it keeps
CoreFields(cs) ==
    [k \in 1..Len(cs) |->
        <<cs[k].text_for_generation, cs[k].chunk_id, cs[k].start_char_index,
          cs[k].end_char_index>>]

\* Whether discard keeps the chunk: it measures at least the minimum.
KeptByDiscard(c) ==
    LengthFunction(length_function, c.text_for_generation)
        >= minimum_chunk_size

\* C18: with runt_handling = "discard" the returned sequence is the canned
\* sequence without the chunks measuring below minimum_chunk_size, the
\* others unchanged and in order; with "keep" it is the canned sequence.
C18_RuntDiscard ==
    (Returned /\ strategy = "dummy") =>
        /\ runt_handling = "discard" =>
              CoreFields(chunks)
                 = CoreFields(SelectSeq(chunks_to_return, KeptByDiscard))
        /\ runt_handling = "keep" =>
              CoreFields(chunks) = CoreFields(chunks_to_return)

\* of three canned chunks the first and last were discarded and the middle
\* one, measuring exactly the minimum, was kept
C18_Witness ==
    /\ Returned /\ strategy = "dummy" /\ runt_handling = "discard"
    /\ Len(chunks_to_return) = 3 /\ Len(chunks) = 1
    /\ chunks[1].chunk_id = 2
    /\ LengthFunction(length_function, chunks[1].text_for_generation)
          = minimum_chunk_size

\* the chunk_overlap values a SentenceChunker with sentence-count overlap
\* can be constructed with, up to one above the largest chunk_size
OverlapValues == 0..(MaxChunkSize + 1)

\* the returned chunks carry the merge's texts and offsets
ChunksOfTuples ==
    /\ Len(chunks) = Len(final_chunks)
    /\ \A k \in 1..Len(chunks) :
          /\ chunks[k].text_for_generation = final_chunks[k].text
          /\ chunks[k].start_char_index = final_chunks[k].start_index
          /\ chunks[k].end_char_index = final_chunks[k].end_index

\* with overlap_sentences > 0 every chunk_overlap >= 0 is accepted, and what
\* chunk() returns is what it returns under every other chunk_overlap
SentenceOverlapOverrides ==
    (strategy = "sentence" /\ overlap_sentences > 0) =>
        /\ (pc # "new" /\ chunk_size > 0 /\ chunk_overlap >= 0)
              => pc # "error"
        /\ Returned =>
              /\ ChunksOfTuples
              /\ \A co \in OverlapValues :
                    MergeSentences(co, sentences) = final_chunks

\* a step that flushes because the next sentence does not fit: the new
\* accumulation is the last overlap_sentences sentences of the flushed one
\* and the new sentence, unless these do not fit either
SeedIsLastSentences ==
    (/\ pc = "sent_merge" /\ overlap_sentences > 0
     /\ idx <= Len(sentences) /\ idx' = idx + 1
     /\ LF(sentences[idx].text) <= chunk_size
     /\ LF(JoinSentenceTexts(Append(current_chunk_sentences, sentences[idx])))
           > chunk_size) =>
        LET n == Len(current_chunk_sentences)
            seed == SubSeq(current_chunk_sentences,
                           Max(1, n - overlap_sentences + 1), n)
            seeded == Append(seed, sentences[idx])
        IN  IF LF(JoinSentenceTexts(seeded)) <= chunk_size
            THEN current_chunk_sentences' = seeded
            ELSE current_chunk_sentences' = <<>>

\* C19: sentence-count overlap takes precedence over size-based overlap:
\* with overlap_sentences > 0 SentenceChunker accepts any chunk_overlap >= 0,
\* the seed after a flush is the last overlap_sentences sentences of the
\* flushed chunk, and the returned chunks are the same for every
\* chunk_overlap.
C19_SentenceOverlapPrecedence ==
    /\ []SentenceOverlapOverrides
    /\ [][SeedIsLastSentences]_vars

\* a chunker constructed with chunk_overlap >= chunk_size returned a chunk
\* that begins with the last sentence of the chunk before it
C19_Witness ==
    /\ Returned /\ strategy = "sentence" /\ overlap_sentences > 0
    /\ chunk_overlap >= chunk_size
    /\ \E k \in 2..Len(chunks) : \E i \in 1..(Len(sentences) - 1) :
          /\ chunks[k].start_char_index = sentences[i].start_index
          /\ chunks[k].end_char_index = sentences[i + 1].end_index
          /\ chunks[k - 1].end_char_index = sentences[i].end_index

WindowAdvances ==
    (pc = "fixed_loop" /\ pc' = "fixed_loop") => start_char' > start_char

\* the chunks built so far are non-empty and no more than the characters of
\* the text, and the loop is left with a chunk that ends at len(text)
FixedLoopBounded ==
    strategy = "fixed" =>
        /\ Len(chunks) <= Len(text)
        /\ \A k \in 1..Len(chunks) : chunks[k].text_for_generation # <<>>
        /\ (Returned /\ text # <<>>) =>
              /\ chunks # <<>>
              /\ chunks[Len(chunks)].end_char_index = Len(text)

\* C22: FixedSizeChunker.chunk terminates for every text and size function:
\* the window start strictly increases on every iteration, every chunk is
\* non-empty, there are at most len(text) chunks, and the loop is left with
\* the last chunk ending at len(text).
C22_FixedTerminates ==
    /\ []FixedLoopBounded
    /\ [][WindowAdvances]_vars
    /\ (pc = "fixed_loop") ~> Returned

\* returned after a chunk that fits the overlap whole, so that the backward
\* scan reached its start and the next window began at its end
C22_Witness ==
    /\ Returned /\ strategy = "fixed" /\ chunk_overlap > 0
    /\ Len(chunks) >= 2
    /\ \E k \in 1..(Len(chunks) - 1) :
          /\ NextOversizedCharIndex(chunks[k].start_char_index)
                # chunks[k].end_char_index
          /\ ScanBackward(chunks[k].start_char_index,
                          chunks[k].end_char_index, chunks[k].end_char_index)
                <= chunks[k].start_char_index
          /\ chunks[k + 1].start_char_index = chunks[k].end_char_index

\* the character at 0-based position i alone exceeds chunk_size
IsOversizedAt(i) == LF(Slice(text, i, i + 1)) > chunk_size

\* C23: a character whose size alone exceeds chunk_size is emitted as a chunk
\* of exactly that character; the chunk before it ends at its index, the
\* chunk after it starts at the next index, and no other chunk holds it,
\* whatever chunk_overlap is.
C23_OversizedAtom ==
    strategy = "fixed" =>
        /\ (pc = "fixed_loop" /\ chunks # <<>>) =>
              LET last == chunks[Len(chunks)]
              IN  /\ IsOversizedAt(last.end_char_index) =>
                        start_char = last.end_char_index
                  /\ IsOversizedAt(last.start_char_index) =>
                        /\ last.end_char_index = last.start_char_index + 1
                        /\ start_char = last.end_char_index
        /\ Returned =>
              \A i \in 0..(Len(text) - 1) :
                 IsOversizedAt(i) =>
                    \E k \in 1..Len(chunks) :
                       /\ chunks[k].start_char_index = i
                       /\ chunks[k].end_char_index = i + 1
                       /\ chunks[k].text_for_generation = <<text[i + 1]>>
                       /\ k > 1 => chunks[k - 1].end_char_index = i
                       /\ k < Len(chunks) =>
                             chunks[k + 1].start_char_index = i + 1
                       /\ \A j \in 1..Len(chunks) :
                             j # k =>
                                ~(/\ chunks[j].start_char_index <= i
                                  /\ i < chunks[j].end_char_index)

\* an oversized character between a chunk of two characters, whose last
\* character would fit the overlap, and a following chunk
C23_Witness ==
    /\ Returned /\ strategy = "fixed" /\ chunk_overlap > 0
    /\ \E k \in 2..(Len(chunks) - 1) :
          /\ IsOversizedAt(chunks[k].start_char_index)
          /\ chunks[k - 1].end_char_index
                >= chunks[k - 1].start_char_index + 2
          /\ LF(Slice(text, chunks[k].start_char_index - 1,
                      chunks[k].start_char_index)) <= chunk_overlap
          /\ ~IsOversizedAt(chunks[k + 1].start_char_index)

\* every suffix text[j:e] with k <= j < e fits the overlap
SuffixesFit(k, e) ==
    \A j \in k..(e - 1) : LF(Slice(text, j, e)) <= chunk_overlap

\* where the window after the chunk [s, e) starts by the overlap rule
OverlapRuleStart(s, e) ==
    IF SuffixesFit(s, e) THEN e
    ELSE CHOOSE k \in (s + 1)..e :
            /\ SuffixesFit(k, e)
            /\ \A m \in (s + 1)..(k - 1) : ~SuffixesFit(m, e)

\* the overlap rule holds between the chunk [s, e) and a next start n
FollowsOverlapRule(s, e, n) ==
    (e < Len(text) /\ ~IsOversizedAt(e)) =>
        /\ n = OverlapRuleStart(s, e)
        /\ n < e => LF(Slice(text, n, e)) <= chunk_overlap

\* C24: after a chunk [start, end) with end < len(text) that is not followed
\* by an oversized character, the next chunk starts at the smallest k in
\* start+1..end whose suffixes text[j:end], k <= j < end, all fit
\* chunk_overlap, and at end when the scan would reach start; two overlapping
\* chunks share a text of size <= chunk_overlap.
C24_OverlapRule ==
    strategy = "fixed" =>
        /\ \A k \in 1..(Len(chunks) - 1) :
              FollowsOverlapRule(chunks[k].start_char_index,
                                 chunks[k].end_char_index,
                                 chunks[k + 1].start_char_index)
        /\ (pc = "fixed_loop" /\ chunks # <<>>) =>
              FollowsOverlapRule(chunks[Len(chunks)].start_char_index,
                                 chunks[Len(chunks)].end_char_index,
                                 start_char)

\* two returned chunks that overlap, the first of at least three characters,
\* the scan having stopped before the first chunk's second character
C24_Witness ==
    /\ Returned /\ strategy = "fixed"
    /\ \E k \in 1..(Len(chunks) - 1) :
          /\ chunks[k + 1].start_char_index < chunks[k].end_char_index
          /\ chunks[k + 1].start_char_index
                > chunks[k].start_char_index + 1
          /\ ~IsOversizedAt(chunks[k].end_char_index)

\* the window limit of step 2, stated from the text: the index of the first
\* oversized character at or after s, or len(text)
WindowLimit(s) ==
    LET over == {i \in s..(Len(text) - 1) : IsOversizedAt(i)}
    IN  IF over = {} THEN Len(text)
        ELSE CHOOSE i \in over : \A j \in over : i <= j

\* the ends in s+1..limit at which the window text[s:end] fits chunk_size
FittingEnds(s) ==
    {x \in (s + 1)..WindowLimit(s) : LF(Slice(text, s, x)) <= chunk_size}

\* C25: every chunk [start, end) that is not an oversized character ends at
\* the largest end in start+1..limit for which text[start:end] measures
\* <= chunk_size, for every size function.
C25_WindowMaximality ==
    strategy = "fixed" =>
        \A k \in 1..Len(chunks) :
           ~IsOversizedAt(chunks[k].start_char_index) =>
              /\ chunks[k].end_char_index
                    \in FittingEnds(chunks[k].start_char_index)
              /\ \A x \in FittingEnds(chunks[k].start_char_index) :
                    x <= chunks[k].end_char_index

\* the size function gives every non-empty fragment of the text a positive
\* size
PositiveSizes ==
    \A a \in 0..(Len(text) - 1) :
       \A b \in (a + 1)..Len(text) : LF(Slice(text, a, b)) > 0

\* C30 as stated: with chunk_overlap = 0 every chunk starts where its
\* predecessor ends, for every size function.
C30_ZeroOverlapDisjoint ==
    (strategy = "fixed" /\ chunk_overlap = 0) =>
        \A k \in 1..(Len(chunks) - 1) :
           chunks[k + 1].start_char_index = chunks[k].end_char_index

\* C30, amended: with chunk_overlap = 0 two adjacent chunks share only text
\* that the size function measures as 0; under a size function that is
\* positive on every non-empty fragment each chunk starts where its
\* predecessor ends.
C30_ZeroOverlapSharesNoSize ==
    (strategy = "fixed" /\ chunk_overlap = 0) =>
        \A k \in 1..(Len(chunks) - 1) :
           /\ chunks[k + 1].start_char_index <= chunks[k].end_char_index
           /\ chunks[k + 1].start_char_index < chunks[k].end_char_index =>
                 LF(Slice(text, chunks[k + 1].start_char_index,
                          chunks[k].end_char_index)) = 0
           /\ PositiveSizes =>
                 chunks[k + 1].start_char_index = chunks[k].end_char_index

\* chunk_overlap = 0 and two returned chunks that share a character of
\* size 0
C30_Witness ==
    /\ Returned /\ strategy = "fixed" /\ chunk_overlap = 0
    /\ \E k \in 1..(Len(chunks) - 1) :
          /\ chunks[k + 1].start_char_index < chunks[k].end_char_index
          /\ chunks[k].token_count > 0
          /\ chunks[k + 1].token_count > 0

RECURSIVE SumOfSizes(_)
\* the sizes of a list of fragments, added up
SumOfSizes(parts) ==
    IF parts = <<>> THEN 0
    ELSE LF(Head(parts).text) + SumOfSizes(Tail(parts))

\* the last m fragments of a list
LastParts(parts, m) == SubSeq(parts, Len(parts) - m + 1, Len(parts))

\* the chunk made of the fragments splits[a..b]
RunOfSplits(a, b) ==
    [ text |-> Concat([k \in 1..(b - a + 1) |-> splits[a + k - 1].text]),
      start_index |-> splits[a].start_index,
      end_index |-> splits[b].end_index ]

\* seed is the longest suffix of parts whose sizes sum to <= chunk_overlap
IsOverlapSeed(seed, parts) ==
    \E m \in 0..Len(parts) :
       /\ seed = LastParts(parts, m)
       /\ SumOfSizes(seed) <= chunk_overlap
       /\ m < Len(parts) => SumOfSizes(LastParts(parts, m + 1)) > chunk_overlap

\* one iteration of the merge loop: flush exactly on overflow of a non-empty
\* accumulation, seed the next chunk, append the overflowing fragment; the
\* step after the loop flushes what is left
MergeStepRule ==
    /\ (pc = "merge" /\ idx' = idx + 1) =>
          LET overflow == /\ current_length + LF(splits[idx].text) > chunk_size
                          /\ current_chunk_parts # <<>>
          IN  /\ overflow =>
                    /\ final_chunks' =
                          Append(final_chunks,
                                 RunOfSplits(idx - Len(current_chunk_parts),
                                             idx - 1))
                    /\ \E seed \in {LastParts(current_chunk_parts, m) :
                                       m \in 0..Len(current_chunk_parts)} :
                          /\ IsOverlapSeed(seed, current_chunk_parts)
                          /\ current_chunk_parts' = Append(seed, splits[idx])
              /\ ~overflow =>
                    /\ final_chunks' = final_chunks
                    /\ current_chunk_parts' =
                          Append(current_chunk_parts, splits[idx])
    /\ (pc = "merge" /\ pc' = "done") =>
          /\ current_chunk_parts # <<>> =>
                final_chunks' =
                   Append(final_chunks,
                          RunOfSplits(idx - Len(current_chunk_parts), idx - 1))
          /\ current_chunk_parts = <<>> => final_chunks' = final_chunks

\* the accumulation is the run of fragments before idx, its length their
\* summed sizes; the chunks are runs of fragments that advance in order, and
\* on return every fragment lies in one of them
MergeKeepsOrder ==
    (strategy = "recursive" /\ pc \in {"merge", "done"}) =>
        /\ current_length = SumOfSizes(current_chunk_parts)
        /\ current_chunk_parts
              = SubSeq(splits, idx - Len(current_chunk_parts), idx - 1)
        /\ \A k \in 1..Len(final_chunks) :
              \E a \in 1..Len(splits) : \E b \in a..Len(splits) :
                 /\ final_chunks[k] = RunOfSplits(a, b)
                 /\ k > 1 =>
                       \E pa \in 1..a : \E pb \in (a - 1)..(b - 1) :
                          /\ pa <= pb
                          /\ final_chunks[k - 1] = RunOfSplits(pa, pb)
        /\ Returned =>
              /\ Len(chunks) = Len(final_chunks)
              /\ \A i \in 1..Len(splits) :
                    \E k \in 1..Len(chunks) :
                       \E a \in 1..i : \E b \in i..Len(splits) :
                          /\ final_chunks[k] = RunOfSplits(a, b)
                          /\ chunks[k].text_for_generation
                                = final_chunks[k].text
                          /\ chunks[k].start_char_index
                                = final_chunks[k].start_index
                          /\ chunks[k].end_char_index
                                = final_chunks[k].end_index

\* C26: the recursive merge flushes the accumulated fragments as one chunk
\* exactly when the next fragment would take the accumulated size over
\* chunk_size and the accumulation is non-empty; the next chunk is seeded
\* with the longest suffix of the flushed fragments whose sizes sum to
\* <= chunk_overlap, followed by the overflowing fragment; the last
\* accumulation is flushed; every fragment is in a chunk, in order.
C26_RecursiveMerge == []MergeKeepsOrder /\ [][MergeStepRule]_vars

\* returned with at least three fragments, two chunks of which the second
\* begins with a seed taken from the first
C26_Witness ==
    /\ Returned /\ strategy = "recursive" /\ chunk_overlap > 0
    /\ Len(splits) >= 3
    /\ \E k \in 1..(Len(final_chunks) - 1) :
          /\ final_chunks[k + 1].start_index < final_chunks[k].end_index
          /\ final_chunks[k + 1].start_index > final_chunks[k].start_index

\* the size function reports the empty fragment as oversized
EmptyIsOversized == LF(<<>>) > chunk_size

\* an activation on an empty fragment is the innermost one, splits nothing
\* and returns nothing; the fragments that reach the merge, and the chunks
\* made of them, are non-empty and keep every letter of the text
EmptyFragmentDropped ==
    (strategy = "recursive" /\ EmptyIsOversized) =>
        /\ \A k \in 1..Len(stack) :
              /\ stack[k].text = <<>> =>
                    /\ k = Len(stack)
                    /\ stack[k].final_splits = <<>>
                    /\ stack[k].recursive_splits = <<>>
              /\ \A j \in 1..Len(stack[k].recursive_splits) :
                    stack[k].recursive_splits[j].text # <<>>
        /\ pc \in {"merge", "done"} =>
              /\ \A i \in 1..Len(splits) :
                    /\ splits[i].text # <<>>
                    /\ splits[i].start_index < splits[i].end_index
              /\ CountChar(Concat([i \in 1..Len(splits) |-> splits[i].text]),
                           "a") = CountChar(text, "a")
        /\ Returned =>
              \A k \in 1..Len(chunks) :
                 /\ chunks[k].text_for_generation # <<>>
                 /\ \E i \in 1..Len(splits) :
                       chunks[k].start_char_index = splits[i].start_index
                 /\ \E i \in 1..Len(splits) :
                       chunks[k].end_char_index = splits[i].end_index

\* when the activation on an empty fragment returns, its caller's list of
\* fragments is what it was
EmptyFragmentReturn ==
    (/\ pc = "split" /\ Len(stack) >= 2 /\ Top.text = <<>>
     /\ Len(stack') = Len(stack) - 1) =>
        stack'[Len(stack')].recursive_splits
           = stack[Len(stack) - 1].recursive_splits

\* C27: a zero-length fragment that the size function reports as oversized
\* is not split again: its activation returns nothing, it adds neither text
\* nor offsets to a chunk, and the non-empty fragments around it are chunked.
C27_EmptyFragmentDiscarded ==
    []EmptyFragmentDropped /\ [][EmptyFragmentReturn]_vars

\* two adjacent separators left an empty fragment between two fragments that
\* were returned in chunks
C27_Witness ==
    /\ Returned /\ strategy = "recursive" /\ EmptyIsOversized
    /\ ~keep_separator /\ separators[1] = SepSpace
    /\ chunks # <<>>
    /\ \E i \in 1..(Len(splits) - 1) :
          /\ splits[i + 1].start_index >= splits[i].end_index + 2
          /\ Slice(text, splits[i].end_index, splits[i + 1].start_index)
                = <<" ", " ">>

\* every activation at a level whose pattern failed holds one split per
\* character of its text, each with its own one-character offsets; a run with
\* a failed pattern, or one that keeps separators, returns chunks that cover
\* the text
PatternFallback ==
    strategy = "recursive" =>
        /\ \A k \in 1..Len(stack) :
              (stack[k].kind = "loop" /\ re_error) =>
                 /\ Len(stack[k].final_splits) = Len(stack[k].text)
                 /\ \A j \in 1..Len(stack[k].text) :
                       /\ stack[k].final_splits[j].text = <<stack[k].text[j]>>
                       /\ stack[k].final_splits[j].start_index
                             = stack[k].initial_offset + j - 1
                       /\ stack[k].final_splits[j].end_index
                             = stack[k].initial_offset + j
        /\ (Returned /\ text # <<>> /\ (re_error \/ keep_separator)) =>
              Covers(chunks, text)

\* C28: a separator that looks like an invalid pattern never stops
\* RecursiveCharacterChunker.chunk: every call returns, and a level whose
\* pattern fails splits into single characters with their own offsets,
\* losing no text.
C28_InvalidSeparator ==
    /\ []PatternFallback
    /\ (pc = "split") ~> Returned

\* the pattern of "(" failed on a text that holds "(", and the chunks
\* returned from the single-character splits cover the text
C28_Witness ==
    /\ Returned /\ strategy = "recursive" /\ re_error
    /\ Head(separators) = SepParen
    /\ \E p \in 1..Len(text) : text[p] = "("
    /\ Len(chunks) >= 2
    /\ Covers(chunks, text)

\* the chunk c is built from the sentences a..b: their texts joined by one
\* space, the first one's start and the last one's end
IsSentenceRun(c, a, b) ==
    /\ c.text_for_generation
          = JoinWithSpace([k \in 1..(b - a + 1) |-> sentences[a + k - 1].text])
    /\ c.start_char_index = sentences[a].start_index
    /\ c.end_char_index = sentences[b].end_index

\* C29: a SentenceChunker chunk built from the consecutive sentences
\* s_a..s_b has their trimmed texts joined by exactly one space as text,
\* s_a's start and s_b's end in the original text as offsets, whatever
\* whitespace separated them, and the size of the joined text as token_count.
C29_SentenceTextAndOffsets ==
    (strategy = "sentence" /\ Returned) =>
        /\ \A i \in 1..Len(sentences) :
              /\ sentences[i].text
                    = Slice(text, sentences[i].start_index,
                            sentences[i].end_index)
              /\ sentences[i].text # <<>>
              /\ ~IsSpace(sentences[i].text[1])
              /\ ~IsSpace(sentences[i].text[Len(sentences[i].text)])
        /\ \A k \in 1..Len(chunks) :
              /\ \E a \in 1..Len(sentences) : \E b \in a..Len(sentences) :
                    IsSentenceRun(chunks[k], a, b)
              /\ chunks[k].token_count = LF(chunks[k].text_for_generation)

\* a returned chunk of two sentences that more than one space separated in
\* the text, so that its text is not the span of its offsets
C29_Witness ==
    /\ Returned /\ strategy = "sentence"
    /\ \E k \in 1..Len(chunks) :
          /\ \E a \in 1..(Len(sentences) - 1) :
                /\ IsSentenceRun(chunks[k], a, a + 1)
                /\ sentences[a + 1].start_index
                      > sentences[a].end_index + 1
          /\ chunks[k].text_for_generation
                # Slice(text, chunks[k].start_char_index,
                        chunks[k].end_char_index)

\* what two results are compared on: everything but the chunk ids
ResultFields(cs) ==
    [k \in 1..Len(cs) |->
        <<cs[k].text_for_generation, cs[k].start_char_index,
          cs[k].end_char_index, cs[k].sequence_number, cs[k].token_count>>]

\* the chunker's fields
ChunkerFields ==
    <<chunk_size, chunk_overlap, length_function, separators, keep_separator,
      overlap_sentences>>

\* the callers that have returned hold results that agree
ReturnedAgree ==
    (pc = "calling") =>
        \A c \in Callers : \A d \in Callers :
           (calls[c].pc = "done" /\ calls[d].pc = "done") =>
              ResultFields(calls[c].chunks) = ResultFields(calls[d].chunks)

\* a step after construction leaves the fields alone, a caller enters with
\* empty buffers, and a caller's step leaves the other caller's locals alone
CallsAreIsolated ==
    /\ pc # "new" => ChunkerFields' = ChunkerFields
    /\ pc = "calling" =>
          \A c \in Callers :
             /\ (calls[c].pc = "idle" /\ calls'[c].pc # "idle") =>
                   /\ calls'[c].chunks = <<>>
                   /\ calls'[c].final_chunks = <<>>
                   /\ calls'[c].current_chunk_parts = <<>>
                   /\ calls'[c].current_chunk_sentences = <<>>
                   /\ calls'[c].start_char = 0
                   /\ calls'[c].sequence_number = 0
             /\ calls'[c] # calls[c] =>
                   \A d \in Callers \ {c} : calls'[d] = calls[d]

=============================================================================
